---- MODULE Spec2Model ----
(***************************************************************************)
(* Event-evaluation pipeline of caits.performance.evaluation:              *)
(* robustness_analysis as a state machine whose steps are the stages of    *)
(* the function body, together with the detection and metrics helpers it   *)
(* calls.                                                                  *)
(***************************************************************************)
EXTENDS Integers, Sequences, FiniteSets, TLC

(* ------------------------------ bounds --------------------------------- *)
\* number of samples of the reconstructed per-class curve
MaxLen == 3
\* largest number of ground-truth events of one call
MaxGT == 2
\* largest number of instances of one batch call
MaxBatch == 2

(* ----------------------------- domains --------------------------------- *)
class_names == <<"A", "B">>
Classes == {class_names[i] : i \in 1..Len(class_names)}
\* probability values in tenths
Levels == {0, 7, 9}
ProbThs == {7, 9}
Srs == {1, 2}
DurThs == {0, 1, 2}
\* IoU thresholds as <<numerator, denominator>>
IoUThs == {<<1, 2>>, <<1, 1>>}

Samples == 1..MaxLen
Curves == [Classes -> [Samples -> Levels]]
BinCurves == [Classes -> [Samples -> {0, 9}]]

\* an event is the half-open interval [start, end) tagged with a class
Event(s, e, c) == [start |-> s, end |-> e, label |-> c]
Events == {Event(s, e, c) : s \in 0..MaxLen, e \in 0..MaxLen, c \in Classes}
GTEvents == {ev \in Events : ev.start < ev.end}
RECURSIVE SeqsUpTo(_, _)
SeqsUpTo(S, n) ==
    IF n = 0 THEN {<<>>}
    ELSE LET shorter == SeqsUpTo(S, n - 1)
         IN shorter \cup {Append(q, x) : q \in {r \in shorter : Len(r) = n - 1}, x \in S}
\* the annotations of one recording: chronological and non-overlapping
Chronological(q) == \A i \in 1..(Len(q) - 1) : q[i].end <= q[i + 1].start
GTLists == {q \in SeqsUpTo(GTEvents, MaxGT) : Chronological(q)}

(* --------------------------- module state ------------------------------ *)
_OPTIONS == <<"transformed_data", "prediction_probas", "trust_metrics",
              "non_overlapping_probas", "interpolated_probas", "smoothed_probas",
              "thresholded_probas", "predicted_events", "ICSD", "figures">>

Range(q) == {q[i] : i \in 1..Len(q)}

\* an optional list argument: None, or a list of keys
NoneArg == [supplied |-> FALSE, keys |-> <<>>]
ListArg(q) == [supplied |-> TRUE, keys |-> q]
\* Python truthiness of `options_to_include`: None and [] are falsy
Truthy(o) == o.supplied /\ Len(o.keys) > 0
\* options_to_include = options_to_include or _OPTIONS
ResolveOptions(o, module_list) == IF Truthy(o) THEN o.keys ELSE module_list

\* results[k] = v
Put(d, k, v) == [f \in DOMAIN d \cup {k} |-> IF f = k THEN v ELSE d[f]]
EmptyDict == [f \in {} |-> 0]

Min(a, b) == IF a < b THEN a ELSE b
Max(a, b) == IF a > b THEN a ELSE b

(* ---------------- detection: thresholding and run extraction ----------- *)
\* boolean mask, TRUE where the curve value is at least the threshold
apply_probability_threshold(interpolated_probs, threshold) ==
    [c \in Classes |-> [i \in Samples |-> interpolated_probs[c][i] >= threshold]]

\* left-to-right scan of one channel; `open` is the 0-based start of the
\* run in progress, or -1 when no run is open; sample i has 0-based index i-1
\* variant: a run still open at the end of the sequence is lost
RECURSIVE ScanRunsNoTail(_, _, _, _, _)
ScanRunsNoTail(channel, c, i, open, acc) ==
    IF i > MaxLen THEN acc
    ELSE IF channel[i]
         THEN ScanRunsNoTail(channel, c, i + 1, IF open >= 0 THEN open ELSE i - 1, acc)
         ELSE ScanRunsNoTail(channel, c, i + 1, -1,
                             IF open >= 0 THEN Append(acc, Event(open, i - 1, c)) ELSE acc)

RECURSIVE ScanRuns(_, _, _, _, _)
ScanRuns(channel, c, i, open, acc) ==
    IF i > MaxLen
    THEN IF open >= 0 THEN Append(acc, Event(open, MaxLen, c)) ELSE acc
    ELSE IF channel[i]
         THEN ScanRuns(channel, c, i + 1, IF open >= 0 THEN open ELSE i - 1, acc)
         ELSE ScanRuns(channel, c, i + 1, -1,
                       IF open >= 0 THEN Append(acc, Event(open, i - 1, c)) ELSE acc)

RECURSIVE ScanClasses(_, _, _)
ScanClasses(probabilities, k, acc) ==
    IF k > Len(class_names) THEN acc
    ELSE ScanClasses(probabilities, k + 1,
                     ScanRuns(probabilities[class_names[k]], class_names[k], 1, -1, acc))

\* one candidate event per run of consecutive TRUE samples, channel by channel
get_continuous_events(probabilities) == ScanClasses(probabilities, 1, <<>>)

(* ----------------------- detection: duration filter -------------------- *)
\* an event of (end - start) samples lasts (end - start) / sr seconds
LongEnough(ev, sr_, duration_threshold) ==
    ev.end - ev.start >= duration_threshold * sr_

FilterByDuration(potential, sr_, duration_threshold) ==
    SelectSeq(potential, LAMBDA ev : LongEnough(ev, sr_, duration_threshold))

\* the mask rebuilt from the surviving events
RebuildMask(events) ==
    [c \in Classes |-> [i \in Samples |->
        \E k \in 1..Len(events) :
            /\ events[k].label = c
            /\ events[k].start < i
            /\ i <= events[k].end]]

apply_duration_threshold(interpolated_probs, potential, sr_, duration_threshold) ==
    LET kept == FilterByDuration(potential, sr_, duration_threshold)
    IN [probs |-> RebuildMask(kept), events |-> kept]

(* ------------------------- detection: matcher -------------------------- *)
Overlap(a, b) == Max(0, Min(a.end, b.end) - Max(a.start, b.start))
Union(a, b) == (a.end - a.start) + (b.end - b.start) - Overlap(a, b)
\* IoU(a, g) > IoU(b, g), IoU(a, g) = IoU(b, g), and IoU(a, g) >= num/den,
\* compared by cross-multiplication (every union is positive)
IoUGreater(a, b, g) == Overlap(a, g) * Union(b, g) > Overlap(b, g) * Union(a, g)
IoUEqual(a, b, g) == Overlap(a, g) * Union(b, g) = Overlap(b, g) * Union(a, g)
IoUAtLeast(a, g, th) == Overlap(a, g) * th[2] >= th[1] * Union(a, g)

\* variant: the later start wins a tie
TieLatestStart(cand, best) == cand.start > best.start
\* tie-break of two candidates with equal IoU: the earlier start wins
TieBreak(cand, best) == cand.start < best.start

\* scan of the predicted events for the best unconsumed candidate of g;
\* `best` is the index of the best one so far, 0 when there is none yet
RECURSIVE BestCandidate(_, _, _, _, _)
BestCandidate(predicted, consumed, g, i, best) ==
    IF i > Len(predicted) THEN best
    ELSE IF i \in consumed
         THEN BestCandidate(predicted, consumed, g, i + 1, best)
         ELSE IF \/ best = 0
                 \/ IoUGreater(predicted[i], predicted[best], g)
                 \/ /\ IoUEqual(predicted[i], predicted[best], g)
                    /\ TieBreak(predicted[i], predicted[best])
              THEN BestCandidate(predicted, consumed, g, i + 1, i)
              ELSE BestCandidate(predicted, consumed, g, i + 1, best)

\* the outcome of one ground-truth event against its best candidate
Outcome(predicted, best, g, th) ==
    IF best = 0 \/ ~IoUAtLeast(predicted[best], g, th)
    THEN [pred |-> 0, outcome |-> "deletion"]
    ELSE IF predicted[best].label = g.label
         THEN [pred |-> best, outcome |-> "correct"]
         ELSE [pred |-> best, outcome |-> "substitution"]

\* greedy matching anchored on the ground truth, in list order
RECURSIVE MatchFrom(_, _, _, _, _, _)
MatchFrom(predicted, gts, th, k, consumed, acc) ==
    IF k > Len(gts) THEN acc
    ELSE LET best == BestCandidate(predicted, consumed, gts[k], 1, 0)
             o == Outcome(predicted, best, gts[k], th)
         IN MatchFrom(predicted, gts, th, k + 1,
                      IF o.pred = 0 THEN consumed ELSE consumed \cup {o.pred},
                      Append(acc, o))

Matching(predicted, gts, th) == MatchFrom(predicted, gts, th, 1, {}, <<>>)

CountOutcome(m, what) == Cardinality({k \in 1..Len(m) : m[k].outcome = what})
Consumed(m) == {m[k].pred : k \in 1..Len(m)} \ {0}

\* the tuple (insertions, corrects, substitutions, deletions)
classify_events(predicted, gts, IoU_th) ==
    LET m == Matching(predicted, gts, IoU_th)
    IN <<Len(predicted) - Cardinality(Consumed(m)),
         CountOutcome(m, "correct"),
         CountOutcome(m, "substitution"),
         CountOutcome(m, "deletion")>>

(* ------------------------------ metrics -------------------------------- *)
NotApplicable == [na |-> TRUE, num |-> 0, den |-> 0, raises |-> FALSE]
Ratio(n, d) == [na |-> FALSE, num |-> n, den |-> d, raises |-> FALSE]
Guarded(n, d) == IF d = 0 THEN NotApplicable ELSE Ratio(n, d)

detection_ratio(C, D, S) == Guarded(C, C + D + S)
reliability(C, I) == Guarded(C, C + I)
erer(D, I, S, C) == Guarded(S + D + I, C + S + D)

(* ------------------------ robustness_analysis -------------------------- *)
VARIABLES
    pc,                 \* position in robustness_analysis
    input_ndim,         \* input_data.ndim
    options_arg,        \* the caller's options_to_include argument
    ground_truths, sr, prob_th, dur_th, iou_th,
    filter_out,         \* what filter_butterworth yields for this input
    options_to_include, \* the local name after line 100
    results,            \* the local dict being filled
    smoothed_probas, threshold_probas, potential_events, predicted_events,
    matcher_in,         \* the arguments classify_events was called with
    matching,           \* classify_events' bookkeeping, one entry per ground truth
    icsd,               \* insertions, corrects, substitutions, deletions
    calls,              \* the collaborators called so far, in order
    returned,           \* TRUE once the function has returned `results`
    error,              \* the exception that left the function, "none" if none
    mode,               \* the entry point called: "single", "many" or "batch"
    module_OPTIONS,     \* the current content of the module-level list _OPTIONS
    prev_results,       \* the dict the previous robustness_analysis call returned
    b_pc,               \* position in robustness_analysis_many / _batch
    b_n,                \* number of entries of ground_truths_dict
    b_i,                \* the loop index i
    b_options,          \* options_to_include as handed to robustness_analysis
    b_results,          \* the mapping filename -> bundle being filled
    b_evaluated,        \* the instances robustness_analysis was called for
    b_failed            \* the instances whose evaluation raised

args == <<input_ndim, options_arg, ground_truths, sr, prob_th, dur_th, iou_th, filter_out>>
locals == <<options_to_include, results, smoothed_probas, threshold_probas,
            potential_events, predicted_events, matcher_in, matching, icsd>>
batch == <<b_pc, b_n, b_i, b_options, b_results, b_evaluated, b_failed>>
session == <<mode, module_OPTIONS, prev_results>>
vars == <<pc, args, locals, calls, returned, error, session, batch>>

NoCounts == [insertions |-> 0, corrects |-> 0, substitutions |-> 0, deletions |-> 0]
NoMatcherIn == [predicted |-> <<>>, gts |-> <<>>, th |-> <<0, 1>>]

\* the allow-lists callers pass
OptionLists ==
    {NoneArg, ListArg(<<>>), ListArg(_OPTIONS),
     ListArg(<<"ICSD">>), ListArg(<<"trust_metrics", "figures">>),
     ListArg(<<"predicted_events">>), ListArg(<<"pred_stats", "transformed_data">>),
     ListArg(<<"prediction_probas", "interpolated_probas", "smoothed_probas",
               "thresholded_probas">>)}

\* calls that exercise the extractor: every curve, threshold and duration
InitExtract ==
    /\ input_ndim = 2
    /\ options_arg = NoneArg
    /\ ground_truths = <<>>
    /\ iou_th = <<1, 2>>
    /\ filter_out \in Curves
    /\ prob_th \in ProbThs
    /\ sr \in Srs
    /\ dur_th \in DurThs

\* calls that exercise the matcher: every ground-truth list and IoU threshold
InitMatch ==
    /\ input_ndim = 2
    /\ options_arg = NoneArg
    /\ ground_truths \in GTLists
    /\ iou_th \in IoUThs
    /\ filter_out \in BinCurves
    /\ prob_th = 7
    /\ sr = 1
    /\ dur_th = 0

\* calls that exercise validation and the allow-list
InitOptions ==
    /\ input_ndim \in {1, 2}
    /\ options_arg \in OptionLists
    /\ ground_truths \in {q \in GTLists : Len(q) <= 1}
    /\ iou_th = <<1, 2>>
    /\ filter_out \in {f \in BinCurves : \A c \in Classes : f[c][1] = 0}
    /\ prob_th = 7
    /\ sr = 1
    /\ dur_th = 1

\* one call of robustness_analysis
InitSingle ==
    /\ mode = "single"
    /\ pc = "validate"
    /\ InitExtract \/ InitMatch \/ InitOptions
    /\ b_pc = "idle"
    /\ b_n = 0

\* one call of robustness_analysis_many or robustness_analysis_batch
InitBatch ==
    /\ mode \in {"many", "batch"}
    /\ pc = "idle"
    /\ input_ndim = 2
    /\ options_arg \in OptionLists
    /\ ground_truths = <<>>
    /\ iou_th = <<1, 2>>
    /\ filter_out = [c \in Classes |-> [i \in Samples |-> 0]]
    /\ prob_th = 7
    /\ sr = 1
    /\ dur_th = 1
    /\ b_pc = "begin"
    /\ b_n \in 0..MaxBatch

Init ==
    /\ InitSingle \/ InitBatch
    /\ module_OPTIONS = _OPTIONS
    /\ prev_results = EmptyDict
    /\ b_i = 0
    /\ b_options = NoneArg
    /\ b_results = EmptyDict
    /\ b_evaluated = {}
    /\ b_failed = {}
    /\ options_to_include = <<>>
    /\ results = EmptyDict
    /\ smoothed_probas = EmptyDict
    /\ threshold_probas = EmptyDict
    /\ potential_events = <<>>
    /\ predicted_events = <<>>
    /\ matcher_in = NoMatcherIn
    /\ matching = <<>>
    /\ icsd = NoCounts
    /\ calls = <<>>
    /\ returned = FALSE
    /\ error = "none"

\* if key in options_to_include: results[field] = value
PutIf(d, opts, key, field, value) ==
    IF key \in Range(opts) THEN Put(d, field, value) ELSE d

Raise(name) ==
    /\ pc' = "raised"
    /\ error' = name
    /\ UNCHANGED <<args, locals, calls, returned>>

\* variant: the dict of the previous call is filled again
SharedResults(previous) == previous
\* line 99: results = {}
NewResults(previous) == EmptyDict

\* variant: only 0-dimensional input is rejected
NdimBelowOne(ndim) == ndim < 1
\* line 94
NdimTooSmall(ndim) == ndim < 2

\* lines 93-103
Validate ==
    /\ pc = "validate"
    /\ UNCHANGED <<session, batch>>
    /\ IF NdimTooSmall(input_ndim)
       THEN Raise("ValueError")
       ELSE /\ options_to_include' = ResolveOptions(options_arg, module_OPTIONS)
            /\ results' = PutIf(NewResults(prev_results), options_to_include',
                                "transformed_data", "transformed_data", "input_data")
            /\ pc' = "generate"
            /\ UNCHANGED <<args, smoothed_probas, threshold_probas, potential_events,
                           predicted_events, matcher_in, matching, icsd, calls,
                           returned, error>>

\* lines 105-129
GenerateProbabilities ==
    /\ pc = "generate"
    /\ UNCHANGED <<session, batch>>
    /\ calls' = calls \o <<"generate_probabilities", "prediction_statistics",
                           "plot_prediction_probabilities">>
    /\ results' = PutIf(PutIf(results, options_to_include, "prediction_probas",
                              "prediction_probas", "prediction_probas"),
                        options_to_include, "pred_stats", "pred_stats", "pred_stats")
    /\ pc' = "interpolate"
    /\ UNCHANGED <<args, options_to_include, smoothed_probas, threshold_probas,
                   potential_events, predicted_events, matcher_in, matching, icsd,
                   returned, error>>

\* line 106, the classifier raising
InferenceFails ==
    /\ pc = "generate"
    /\ UNCHANGED <<session, batch>>
    /\ calls' = Append(calls, "generate_probabilities")
    /\ pc' = "raised"
    /\ error' = "InferenceError"
    /\ UNCHANGED <<args, locals, returned>>

\* lines 131-142
Interpolate ==
    /\ pc = "interpolate"
    /\ UNCHANGED <<session, batch>>
    /\ calls' = Append(calls, "interpolate_probabilities")
    /\ results' = PutIf(results, options_to_include, "interpolated_probas",
                        "interpolated_probas", "interpolated_probas")
    /\ pc' = "smooth"
    /\ UNCHANGED <<args, options_to_include, smoothed_probas, threshold_probas,
                   potential_events, predicted_events, matcher_in, matching, icsd,
                   returned, error>>

\* lines 144-165
Smooth ==
    /\ pc = "smooth"
    /\ UNCHANGED <<session, batch>>
    /\ calls' = calls \o <<"filter_butterworth", "plot_signal">>
    /\ smoothed_probas' = filter_out
    /\ results' = PutIf(results, options_to_include, "smoothed_probas",
                        "smoothed_probas", smoothed_probas')
    /\ pc' = "threshold"
    /\ UNCHANGED <<args, options_to_include, threshold_probas, potential_events,
                   predicted_events, matcher_in, matching, icsd, returned, error>>

\* line 147, the filter raising
FilterFails ==
    /\ pc = "smooth"
    /\ UNCHANGED <<session, batch>>
    /\ calls' = Append(calls, "filter_butterworth")
    /\ pc' = "raised"
    /\ error' = "FilterError"
    /\ UNCHANGED <<args, locals, returned>>

\* lines 167-170
ThresholdAndExtract ==
    /\ pc = "threshold"
    /\ UNCHANGED <<session, batch>>
    /\ threshold_probas' = apply_probability_threshold(smoothed_probas, prob_th)
    /\ potential_events' = get_continuous_events(threshold_probas')
    /\ pc' = "duration"
    /\ UNCHANGED <<args, options_to_include, results, smoothed_probas, predicted_events,
                   matcher_in, matching, icsd, calls, returned, error>>

\* lines 194-201
FigureNames == {"pred_probas_fig", "interp_probas_fig", "thresh_probas_fig"}

\* lines 172-206
DurationThreshold ==
    /\ pc = "duration"
    /\ UNCHANGED <<session, batch>>
    /\ LET r == apply_duration_threshold(threshold_probas, potential_events, sr, dur_th)
       IN /\ threshold_probas' = r.probs
          /\ predicted_events' = r.events
    /\ calls' = Append(calls, "plot_signal")
    /\ results' = PutIf(PutIf(results, options_to_include, "thresholded_probas",
                              "thresholded_probas", threshold_probas'),
                        options_to_include, "figures", "figures", FigureNames)
    /\ pc' = "classify"
    /\ UNCHANGED <<args, options_to_include, smoothed_probas, potential_events,
                   matcher_in, matching, icsd, returned, error>>

\* variants: the candidates before the duration filter are handed over; the
\* two event lists are handed over in the other order; prob_th is handed over
\* as the IoU threshold
ClassifyArgsPotential(predicted, potential, gts, iou, prob) ==
    [predicted |-> potential, gts |-> gts, th |-> iou]
ClassifyArgsSwapped(predicted, potential, gts, iou, prob) ==
    [predicted |-> gts, gts |-> predicted, th |-> iou]
ClassifyArgsProbTh(predicted, potential, gts, iou, prob) ==
    [predicted |-> predicted, gts |-> gts, th |-> <<prob, 10>>]
\* lines 208-210, the arguments of the classify_events call
ClassifyArgs(predicted, potential, gts, iou, prob) ==
    [predicted |-> predicted, gts |-> gts, th |-> iou]

\* variant: insertions and deletions unpacked in each other's place
UnpackSwapped(t) ==
    [insertions |-> t[4], corrects |-> t[2], substitutions |-> t[3], deletions |-> t[1]]
\* line 208, the unpacking of the returned tuple
Unpack(t) ==
    [insertions |-> t[1], corrects |-> t[2], substitutions |-> t[3], deletions |-> t[4]]

\* lines 208-217
ClassifyEvents ==
    /\ pc = "classify"
    /\ UNCHANGED <<session, batch>>
    /\ matcher_in' = ClassifyArgs(predicted_events, potential_events, ground_truths,
                                  iou_th, prob_th)
    /\ matching' = Matching(matcher_in'.predicted, matcher_in'.gts, matcher_in'.th)
    /\ icsd' = Unpack(classify_events(matcher_in'.predicted, matcher_in'.gts,
                                      matcher_in'.th))
    /\ results' =
          IF "ICSD" \in Range(options_to_include)
          THEN Put(Put(Put(Put(results, "Insertions", icsd'.insertions),
                           "corrects", icsd'.corrects),
                       "substitutions", icsd'.substitutions),
                   "deletions", icsd'.deletions)
          ELSE results
    /\ pc' = "trust"
    /\ UNCHANGED <<args, options_to_include, smoothed_probas, threshold_probas,
                   potential_events, predicted_events, calls, returned, error>>

\* variant: insertions and deletions passed in each other's place
TrustMetricsWrongCount(c) ==
    [DR |-> detection_ratio(c.corrects, c.insertions, c.substitutions),
     Reliability |-> reliability(c.corrects, c.deletions),
     ERER |-> erer(c.deletions, c.insertions, c.substitutions, c.corrects)]
\* lines 220-222, the three metric calls
TrustMetricsOf(c) ==
    [DR |-> detection_ratio(c.corrects, c.deletions, c.substitutions),
     Reliability |-> reliability(c.corrects, c.insertions),
     ERER |-> erer(c.deletions, c.insertions, c.substitutions, c.corrects)]

\* lines 219-224
TrustMetrics ==
    /\ pc = "trust"
    /\ UNCHANGED <<session, batch>>
    /\ IF "trust_metrics" \in Range(options_to_include)
       THEN LET t == TrustMetricsOf(icsd)
            IN IF t.DR.raises \/ t.Reliability.raises \/ t.ERER.raises
               THEN Raise("ZeroDivisionError")
               ELSE /\ results' = Put(Put(Put(results, "DR", t.DR),
                                          "Reliability", t.Reliability),
                                      "ERER", t.ERER)
                    /\ returned' = TRUE
                    /\ pc' = "done"
                    /\ UNCHANGED <<args, options_to_include, smoothed_probas,
                                   threshold_probas, potential_events, predicted_events,
                                   matcher_in, matching, icsd, calls, error>>
       ELSE /\ returned' = TRUE
            /\ pc' = "done"
            /\ UNCHANGED <<args, locals, calls, error>>

\* the allow-list key that selects a field of the bundle
KeyOfField(f) ==
    CASE f \in {"Insertions", "corrects", "substitutions", "deletions"} -> "ICSD"
      [] f \in {"DR", "Reliability", "ERER"} -> "trust_metrics"
      [] OTHER -> f

(* ------------ robustness_analysis_many, robustness_analysis_batch ------- *)
\* lines 36-52, the parameters of robustness_analysis and those without default
Parameters ==
    {"model", "input_data", "class_names", "sr", "ws", "overlap_percentage",
     "ground_truths", "cutoff", "repeats", "metrics", "interp_choice", "prob_th",
     "dur_th", "iou_th", "figsize", "x_axis", "options_to_include"}
Required ==
    {"model", "input_data", "class_names", "sr", "ws", "overlap_percentage",
     "ground_truths", "cutoff"}
\* lines 254-268 and 330-344, the keywords of the two calls
CallKeywords ==
    {"model", "input_data", "class_names", "cutoff", "sample_rate", "ws",
     "perc_overlap", "ground_truths", "repeats", "metrics", "prob_th", "duration_th",
     "iou_th", "options_to_include", "figsize"}
\* a keyword call binds iff every keyword is a parameter and no parameter
\* without default is left out
Binds(keywords) == keywords \subseteq Parameters /\ Required \subseteq keywords

\* the fields robustness_analysis stores, lines 102-222
StoredFields ==
    {"transformed_data", "prediction_probas", "pred_stats", "interpolated_probas",
     "smoothed_probas", "thresholded_probas", "figures", "Insertions", "corrects",
     "substitutions", "deletions", "DR", "Reliability", "ERER"}
\* the bundle of one instance, up to the values of its curves and counts
InstanceBundle(opts) ==
    [f \in {g \in StoredFields : KeyOfField(g) \in Range(opts)} |->
        IF f = "figures" THEN FigureNames ELSE f]

\* results.setdefault(filename, {}).setdefault("figures", {})[name] = figure
SetDefaultFigure(d, filename, name) ==
    LET bundle == IF filename \in DOMAIN d THEN d[filename] ELSE EmptyDict
        figures == IF "figures" \in DOMAIN bundle THEN bundle["figures"] ELSE {}
    IN Put(d, filename, Put(bundle, "figures", figures \cup {name}))

\* lines 244-247 and 294-298
BatchBegin ==
    /\ b_pc = "begin"
    /\ b_results' = EmptyDict
    /\ b_options' = IF mode = "batch"
                    THEN ListArg(ResolveOptions(options_arg, module_OPTIONS))
                    ELSE options_arg
    /\ calls' = Append(calls, "get_gt_events_from_dict")
    /\ b_pc' = "loop"
    /\ UNCHANGED <<pc, args, locals, returned, error, session, b_n, b_i, b_evaluated,
                   b_failed>>

\* lines 249-251 and 300-326; the instance of index i has filename i + 1
BatchPrepare ==
    /\ b_pc = "loop"
    /\ b_i < b_n
    /\ IF mode = "batch"
       THEN /\ b_results' = IF "figures" \in Range(b_options.keys)
                            THEN SetDefaultFigure(b_results, b_i + 1, "pilot_signal")
                            ELSE b_results
            /\ calls' = IF "figures" \in Range(b_options.keys)
                        THEN calls \o <<"plot_signal", "pipeline.transform">>
                        ELSE Append(calls, "pipeline.transform")
       ELSE UNCHANGED <<b_results, calls>>
    /\ b_pc' = "call"
    /\ UNCHANGED <<pc, args, locals, returned, error, session, b_n, b_i, b_options,
                   b_evaluated, b_failed>>

\* lines 271 and 347: results[filename] = instance_results
StoreInstance(d, filename, instance_results) == Put(d, filename, instance_results)

\* lines 253-271 and 329-347: the call of robustness_analysis and the store of
\* its bundle; an exception of the call leaves the loop and the function
BatchCall ==
    /\ b_pc = "call"
    /\ b_evaluated' = b_evaluated \cup {b_i + 1}
    /\ IF Binds(CallKeywords)
       THEN \E outcome \in {"returns", "InferenceError", "FilterError"} :
               IF outcome = "returns"
               THEN /\ b_results' =
                          StoreInstance(b_results, b_i + 1,
                              InstanceBundle(ResolveOptions(b_options, module_OPTIONS)))
                    /\ b_i' = b_i + 1
                    /\ b_pc' = "loop"
                    /\ UNCHANGED <<error, b_failed>>
               ELSE /\ b_failed' = b_failed \cup {b_i + 1}
                    /\ error' = outcome
                    /\ b_pc' = "raised"
                    /\ UNCHANGED <<b_results, b_i>>
       ELSE /\ b_failed' = b_failed \cup {b_i + 1}
            /\ error' = "TypeError"
            /\ b_pc' = "raised"
            /\ UNCHANGED <<b_results, b_i>>
    /\ UNCHANGED <<pc, args, locals, calls, returned, session, b_n, b_options>>

\* lines 273 and 349
BatchReturn ==
    /\ b_pc = "loop"
    /\ b_i = b_n
    /\ b_pc' = "done"
    /\ UNCHANGED <<pc, args, locals, calls, returned, error, session, b_n, b_i,
                   b_options, b_results, b_evaluated, b_failed>>

(* --------------------------- the caller -------------------------------- *)
\* the arguments of the calls a caller repeats
RepeatArgs ==
    /\ ground_truths = <<>>
    /\ filter_out = [c \in Classes |-> [i \in Samples |-> 0]]
    /\ prob_th = 7
    /\ sr = 1
    /\ dur_th = 1
    /\ iou_th = <<1, 2>>

\* the call has ended and the caller makes another one, of any of the three
\* functions, with the same data and any allow-list
NextCall ==
    /\ RepeatArgs
    /\ (IF mode = "single" THEN pc ELSE b_pc) \in {"done", "raised"}
    /\ prev_results' = IF mode = "single" /\ returned THEN results ELSE prev_results
    /\ \E m \in {"single", "many", "batch"}, o \in OptionLists,
          n \in 0..MaxBatch, nd \in {1, 2} :
          /\ mode' = m
          /\ options_arg' = o
          /\ input_ndim' = IF m = "single" THEN nd ELSE 2
          /\ b_n' = IF m = "single" THEN 0 ELSE n
          /\ pc' = IF m = "single" THEN "validate" ELSE "idle"
          /\ b_pc' = IF m = "single" THEN "idle" ELSE "begin"
    /\ options_to_include' = <<>>
    /\ results' = EmptyDict
    /\ smoothed_probas' = EmptyDict
    /\ threshold_probas' = EmptyDict
    /\ potential_events' = <<>>
    /\ predicted_events' = <<>>
    /\ matcher_in' = NoMatcherIn
    /\ matching' = <<>>
    /\ icsd' = NoCounts
    /\ calls' = <<>>
    /\ returned' = FALSE
    /\ error' = "none"
    /\ b_i' = 0
    /\ b_options' = NoneArg
    /\ b_results' = EmptyDict
    /\ b_evaluated' = {}
    /\ b_failed' = {}
    /\ UNCHANGED <<ground_truths, sr, prob_th, dur_th, iou_th, filter_out,
                   module_OPTIONS>>

Next ==
    \/ Validate
    \/ GenerateProbabilities
    \/ InferenceFails
    \/ Interpolate
    \/ Smooth
    \/ FilterFails
    \/ ThresholdAndExtract
    \/ DurationThreshold
    \/ ClassifyEvents
    \/ TrustMetrics
    \/ BatchBegin
    \/ BatchPrepare
    \/ BatchCall
    \/ BatchReturn
    \/ NextCall

Spec == Init /\ [][Next]_vars

(* ============================== claims ================================= *)
AfterClassify == pc \in {"trust", "done"}
AfterDuration == pc \in {"classify", "trust", "done"}

\* the predicted events still unconsumed when ground truth k is processed
UnconsumedAt(k) ==
    (1..Len(predicted_events)) \ ({matching[j].pred : j \in 1..(k - 1)} \ {0})

\* C1: after classify_events returns, corrects + substitutions + deletions is
\* the number of ground-truth events, corrects + substitutions + insertions is
\* the number of predicted events, no predicted event is matched to two
\* ground-truth events and none is dropped
C1_EveryEventCountedOnce ==
    AfterClassify =>
        /\ icsd.corrects + icsd.substitutions + icsd.deletions = Len(ground_truths)
        /\ icsd.corrects + icsd.substitutions + icsd.insertions = Len(predicted_events)
        /\ Len(matching) = Len(ground_truths)
        /\ \A k \in 1..Len(matching) : matching[k].pred \in 0..Len(predicted_events)
        /\ \A j, k \in 1..Len(matching) :
              (j # k /\ matching[j].pred # 0) => matching[j].pred # matching[k].pred
        /\ icsd.insertions =
              Cardinality((1..Len(predicted_events))
                          \ {matching[k].pred : k \in 1..Len(matching)})
        /\ icsd.deletions = Cardinality({k \in 1..Len(matching) : matching[k].pred = 0})

\* a second ground-truth event finds the predicted event it overlaps consumed
C1_Witness ==
    /\ pc = "done"
    /\ icsd.corrects = 1 /\ icsd.deletions = 1 /\ icsd.insertions = 1
    /\ \E j, k \in 1..Len(matching) :
          /\ j < k
          /\ matching[j].pred # 0
          /\ matching[k].pred = 0
          /\ IoUAtLeast(predicted_events[matching[j].pred], ground_truths[k], iou_th)

\* C2: each ground-truth event takes the unconsumed predicted event of highest
\* IoU; below iou_th (or with none left) it is a deletion, at or above iou_th it
\* is a correct when the labels are equal and a substitution otherwise
C2_BestCandidateDecides ==
    AfterClassify =>
        /\ Len(matching) = Len(ground_truths)
        /\ \A k \in 1..Len(ground_truths) :
              LET g == ground_truths[k]
                  U == UnconsumedAt(k)
                  m == matching[k]
              IN IF \A p \in U : ~IoUAtLeast(predicted_events[p], g, iou_th)
                 THEN m.pred = 0 /\ m.outcome = "deletion"
                 ELSE /\ m.pred \in U
                      /\ \A q \in U :
                            ~IoUGreater(predicted_events[q], predicted_events[m.pred], g)
                      /\ m.outcome = IF predicted_events[m.pred].label = g.label
                                     THEN "correct" ELSE "substitution"

\* one run with a correct, and a substitution at an IoU strictly between the
\* threshold and 1
C2_Witness ==
    /\ pc = "done"
    /\ \E j, k \in 1..Len(matching) :
          /\ matching[j].outcome = "correct"
          /\ matching[k].outcome = "substitution"
          /\ Overlap(predicted_events[matching[k].pred], ground_truths[k])
                < Union(predicted_events[matching[k].pred], ground_truths[k])

\* C3: with no predicted event every ground-truth event is a deletion and the
\* other three counts are zero; with no ground-truth event every predicted
\* event is an insertion and the other three counts are zero
C3_EmptySides ==
    AfterClassify =>
        /\ Len(predicted_events) = 0 =>
              /\ icsd.deletions = Len(ground_truths)
              /\ icsd.corrects = 0 /\ icsd.substitutions = 0 /\ icsd.insertions = 0
        /\ Len(ground_truths) = 0 =>
              /\ icsd.insertions = Len(predicted_events)
              /\ icsd.corrects = 0 /\ icsd.substitutions = 0 /\ icsd.deletions = 0

C3_Witness ==
    /\ pc = "done"
    /\ Len(predicted_events) = 0
    /\ Len(ground_truths) = MaxGT
    /\ icsd.deletions = MaxGT

\* C4: among the unconsumed predicted events that tie on the maximum IoU with
\* a ground-truth event, the matched one has the earliest start time
C4_TieGoesToEarliestStart ==
    AfterClassify =>
        \A k \in 1..Len(matching) :
            matching[k].pred # 0 =>
                \A q \in UnconsumedAt(k) :
                    IoUEqual(predicted_events[q], predicted_events[matching[k].pred],
                             ground_truths[k])
                    => predicted_events[matching[k].pred].start <= predicted_events[q].start

\* a tie on the maximum IoU, the later-starting event standing first in the list
C4_Witness ==
    /\ pc = "done"
    /\ \E k \in 1..Len(matching) :
          /\ matching[k].pred # 0
          /\ \E q \in UnconsumedAt(k) :
                /\ q < matching[k].pred
                /\ IoUEqual(predicted_events[q], predicted_events[matching[k].pred],
                            ground_truths[k])
                /\ predicted_events[q].start > predicted_events[matching[k].pred].start

\* the maximal runs of consecutive TRUE samples of a mask, as events
MaximalRuns(mask) ==
    {ev \in GTEvents :
        /\ \A i \in (ev.start + 1)..ev.end : mask[ev.label][i]
        /\ ev.start = 0 \/ ~mask[ev.label][ev.start]
        /\ ev.end = MaxLen \/ ~mask[ev.label][ev.end + 1]}

\* C5: run extraction over the per-class mask (TRUE where the curve is at
\* least prob_th) yields exactly one candidate event per maximal run of
\* consecutive TRUE samples; runs separated by a FALSE sample are not merged
\* and an all-FALSE mask yields no event and no error
C5_OneEventPerMaximalRun ==
    pc = "duration" =>
        /\ \A c \in Classes : \A i \in Samples :
              threshold_probas[c][i] <=> (smoothed_probas[c][i] >= prob_th)
        /\ Range(potential_events) = MaximalRuns(threshold_probas)
        /\ Len(potential_events) = Cardinality(MaximalRuns(threshold_probas))
        /\ error = "none"

\* two runs of one channel separated by a single FALSE sample
C5_Witness ==
    /\ pc = "duration"
    /\ \E c \in Classes : \E i \in Samples :
          /\ i > 1 /\ i < MaxLen
          /\ ~threshold_probas[c][i]
          /\ threshold_probas[c][i - 1]
          /\ threshold_probas[c][i + 1]
          /\ \E j, k \in 1..Len(potential_events) :
                /\ potential_events[j].label = c /\ potential_events[j].end = i - 1
                /\ potential_events[k].label = c /\ potential_events[k].start = i

\* the position of an event in a list of distinct events
Position(q, ev) == CHOOSE i \in 1..Len(q) : q[i] = ev

\* C6: the duration filter keeps a candidate event iff its duration
\* (end - start) / sr is at least dur_th; the survivors are unchanged and in
\* order, dur_th = 0 keeps every candidate, and the matcher receives exactly
\* the survivors
C6_DurationFilterAndHandOver ==
    AfterDuration =>
        /\ Range(predicted_events) =
              {ev \in Range(potential_events) : ev.end - ev.start >= dur_th * sr}
        /\ \A i, j \in 1..Len(predicted_events) :
              i < j => Position(potential_events, predicted_events[i])
                         < Position(potential_events, predicted_events[j])
        /\ dur_th = 0 => predicted_events = potential_events
        /\ AfterClassify => matcher_in.predicted = predicted_events

\* a call where the filter discards a candidate and keeps another
C6_Witness ==
    /\ pc = "done"
    /\ Len(predicted_events) > 0
    /\ Len(predicted_events) < Len(potential_events)
    /\ matcher_in.predicted = predicted_events

\* C7: the trust metrics never raise on a zero denominator: detection_ratio and
\* event_error_rate with no ground-truth event and reliability with C + I = 0
\* are the not-applicable value, and robustness_analysis with trust_metrics
\* requested returns for every combination of counts
C7_ZeroDenominatorIsNotApplicable ==
    /\ error # "ZeroDivisionError"
    /\ (pc = "done" /\ "trust_metrics" \in Range(options_to_include)) =>
          /\ {"DR", "Reliability", "ERER"} \subseteq DOMAIN results
          /\ (icsd.corrects + icsd.deletions + icsd.substitutions = 0) <=> results["DR"].na
          /\ (icsd.corrects + icsd.insertions = 0) <=> results["Reliability"].na
          /\ (icsd.corrects + icsd.substitutions + icsd.deletions = 0) <=> results["ERER"].na

\* no ground-truth event and no predicted event, trust metrics requested
C7_Witness ==
    /\ pc = "done"
    /\ returned
    /\ "trust_metrics" \in Range(options_to_include)
    /\ Len(ground_truths) = 0 /\ Len(predicted_events) = 0
    /\ results["DR"].na /\ results["Reliability"].na /\ results["ERER"].na

\* C8: with input_data of fewer than 2 dimensions the call raises the
\* validation error before any stage: no collaborator is called, no result
\* field is set and nothing is returned
C8_ValidationBeforeAnyStage ==
    input_ndim < 2 =>
        /\ pc \in {"validate", "raised"}
        /\ pc = "raised" => error = "ValueError"
        /\ calls = <<>>
        /\ DOMAIN results = {}
        /\ ~returned
        /\ Len(potential_events) = 0 /\ Len(predicted_events) = 0 /\ Len(matching) = 0

C8_Witness ==
    /\ input_ndim = 1
    /\ pc = "raised"
    /\ error = "ValueError"

\* the recognised keys and the fields each one selects
RecognisedKeys ==
    {"transformed_data", "prediction_probas", "pred_stats", "interpolated_probas",
     "smoothed_probas", "thresholded_probas", "predicted_events", "ICSD", "figures",
     "trust_metrics"}
FieldsOfKey(k) ==
    CASE k = "ICSD" -> {"Insertions", "corrects", "substitutions", "deletions"}
      [] k = "trust_metrics" -> {"DR", "Reliability", "ERER"}
      [] OTHER -> {k}

\* C9: for every allow-list the caller supplies, the empty one included, the
\* returned bundle holds a field only if the key selecting it is in that list
C9_OnlyRequestedFields ==
    (returned /\ options_arg.supplied) =>
        \A f \in DOMAIN results : KeyOfField(f) \in Range(options_arg.keys)

\* C10: every recognised key of the allow-list yields its field in the
\* returned bundle, and the default allow-list yields every recognised field
C10_RequestedFieldsPresent ==
    returned =>
        /\ options_arg.supplied =>
              \A k \in RecognisedKeys \cap Range(options_arg.keys) :
                  FieldsOfKey(k) \subseteq DOMAIN results
        /\ ~options_arg.supplied =>
              \A k \in RecognisedKeys : FieldsOfKey(k) \subseteq DOMAIN results

BatchEnded == mode # "single" /\ b_pc \in {"done", "raised"}
CollaboratorFailed == error \in {"InferenceError", "FilterError"}

\* C11: the batch variants, given N instances with N ground-truth entries, run
\* the single-instance evaluation once per instance and return a mapping that
\* holds exactly one bundle per filename
C11_OneBundlePerInstance ==
    (BatchEnded /\ ~CollaboratorFailed) =>
        /\ b_pc = "done"
        /\ b_evaluated = 1..b_n
        /\ DOMAIN b_results = 1..b_n

\* C12: a failure while evaluating one instance aborts only that instance: the
\* batch is not aborted, the remaining instances are evaluated and the bundles
\* of the instances that completed are returned
C12_FailureAbortsOnlyInstance ==
    (mode # "single" /\ b_failed # {}) =>
        /\ b_pc # "raised"
        /\ b_pc = "done" =>
              /\ b_evaluated = 1..b_n
              /\ (1..b_n) \ b_failed \subseteq DOMAIN b_results

\* C14: in robustness_analysis_batch with "figures" in the allow-list, the
\* evaluation of an instance returns and the returned mapping holds, under
\* results[filename]["figures"], the pilot_signal figure stored before the
\* evaluation alongside the figures of the evaluation
C14_PilotSignalKept ==
    (/\ BatchEnded /\ ~CollaboratorFailed
     /\ mode = "batch"
     /\ "figures" \in Range(b_options.keys)) =>
        /\ b_pc = "done"
        /\ \A filename \in 1..b_n :
              /\ filename \in DOMAIN b_results
              /\ "figures" \in DOMAIN b_results[filename]
              /\ {"pilot_signal"} \cup FigureNames \subseteq b_results[filename]["figures"]

\* C13: no state is shared between calls: in every step of any sequence of
\* robustness_analysis, robustness_analysis_many and robustness_analysis_batch
\* calls the module-level list _OPTIONS keeps its content, a call leaves the
\* caller's options_to_include list as it was passed, and the bundle a call
\* returns holds exactly the fields its own allow-list selects, whatever the
\* earlier calls returned
C13_NoSharedState ==
    [][/\ module_OPTIONS' = _OPTIONS
       /\ (pc' = "validate" \/ b_pc' = "begin") \/ options_arg' = options_arg
       /\ returned' =>
             DOMAIN results' =
                {f \in StoredFields :
                    KeyOfField(f) \in Range(ResolveOptions(options_arg', _OPTIONS))}]_vars

\* a call returns its bundle after an earlier call returned one with other fields
C13_Witness ==
    /\ returned
    /\ DOMAIN prev_results # {}
    /\ DOMAIN prev_results # DOMAIN results
    /\ module_OPTIONS = _OPTIONS

====
